---- MODULE Spec2Model ----
(***************************************************************************)
(* A model of the two clang-format plugins of this repository:            *)
(*   src/ClangFormat.py         (variant "ClangFormat", with an indicator) *)
(*   src/SublimeClangFormat.py  (variant "SublimeClangFormat")             *)
(* One view and one ClangFormatCommand instance are modelled.  The host's  *)
(* main thread runs one task at a time (a command, a timer callback);      *)
(* every invocation has its own background thread and formatter process.   *)
(* Text is a sequence of code points, bytes are a sequence of 0..255.      *)
(* The viewport position that run captures and the apply command restores *)
(* 10 ms later is left out: nothing else reads or writes it.               *)
(***************************************************************************)
EXTENDS Integers, Sequences, FiniteSets, TLC

\* Bounds of the model.
MaxInv == 2        \* invocations of the command on the view
MaxSel == 2        \* regions in a selection set (SpecArgs)
MaxPos == 12       \* largest buffer position of a region (SpecArgs)

Inv == 1..MaxInv
NoHandle == 0      \* Python None in self._indicator

(***************************************************************************)
(* Python built-ins used by the plugins.                                   *)
(***************************************************************************)
min(a, b) == IF a <= b THEN a ELSE b

abs(x) == IF x < 0 THEN -x ELSE x

Digit(d) ==
    CASE d = 0 -> "0" [] d = 1 -> "1" [] d = 2 -> "2" [] d = 3 -> "3"
      [] d = 4 -> "4" [] d = 5 -> "5" [] d = 6 -> "6" [] d = 7 -> "7"
      [] d = 8 -> "8" [] d = 9 -> "9"

RECURSIVE StrNat(_)
StrNat(k) == IF k < 10 THEN Digit(k) ELSE StrNat(k \div 10) \o Digit(k % 10)

\* str(int): decimal digits, a leading "-" for a negative number.
str(k) == IF k < 0 THEN "-" \o StrNat(-k) ELSE StrNat(k)

\* The codec Python finds for the name in `encoding` after the fallback of
\* "Undefined" to 'utf-8'; a Sublime encoding name that is no Python codec
\* makes str.encode raise LookupError.
PyCodec(name) ==
    CASE name = "utf-8" -> "utf-8"
      [] name = "UTF-8" -> "utf-8"
      [] name = "UTF-16 LE" -> "utf-16-le"
      [] OTHER -> "LookupError"

Utf8Char(cp) ==
    IF cp < 128 THEN <<cp>>
    ELSE IF cp < 2048 THEN <<192 + (cp \div 64), 128 + (cp % 64)>>
    ELSE <<224 + (cp \div 4096), 128 + ((cp \div 64) % 64), 128 + (cp % 64)>>

Utf16leChar(cp) == <<cp % 256, cp \div 256>>

RECURSIVE encode(_, _)
\* str.encode(codec) for code points below 65536.
encode(codec, text) ==
    IF text = <<>> THEN <<>>
    ELSE (IF codec = "utf-8" THEN Utf8Char(Head(text)) ELSE Utf16leChar(Head(text)))
         \o encode(codec, Tail(text))

DecodeFail == [ok |-> FALSE, text |-> <<>>]

RECURSIVE Utf8Decode(_)
\* bytes.decode('utf-8'), strict, for sequences of one to three bytes.
Utf8Decode(bs) ==
    IF bs = <<>> THEN [ok |-> TRUE, text |-> <<>>]
    ELSE LET b0 == Head(bs)
             k  == IF b0 < 128 THEN 1
                   ELSE IF b0 \in 194..223 THEN 2
                   ELSE IF b0 \in 224..239 THEN 3
                   ELSE 0
         IN  IF k = 0 \/ Len(bs) < k THEN DecodeFail
             ELSE IF \E j \in 2..k : bs[j] \notin 128..191 THEN DecodeFail
             ELSE LET cp == CASE k = 1 -> b0
                              [] k = 2 -> (b0 - 192) * 64 + (bs[2] - 128)
                              [] k = 3 -> (b0 - 224) * 4096 + (bs[2] - 128) * 64
                                          + (bs[3] - 128)
                      rest == Utf8Decode(SubSeq(bs, k + 1, Len(bs)))
                  IN  IF k = 3 /\ (cp < 2048 \/ cp \in 55296..57343) THEN DecodeFail
                      ELSE IF ~rest.ok THEN DecodeFail
                      ELSE [ok |-> TRUE, text |-> <<cp>> \o rest.text]

RECURSIVE Utf16leDecode(_)
\* bytes.decode('utf-16-le'), strict, for code units outside the surrogates.
Utf16leDecode(bs) ==
    IF bs = <<>> THEN [ok |-> TRUE, text |-> <<>>]
    ELSE IF Len(bs) < 2 THEN DecodeFail
    ELSE LET cp == bs[1] + 256 * bs[2]
             rest == Utf16leDecode(SubSeq(bs, 3, Len(bs)))
         IN  IF cp \in 55296..57343 \/ ~rest.ok THEN DecodeFail
             ELSE [ok |-> TRUE, text |-> <<cp>> \o rest.text]

decode(codec, bs) == IF codec = "utf-8" THEN Utf8Decode(bs) ELSE Utf16leDecode(bs)

(***************************************************************************)
(* The platform and the filesystem.                                        *)
(***************************************************************************)
sys_platform == "linux"

platform_name ==
    IF sys_platform = "linux" THEN "linux"
    ELSE IF sys_platform = "darwin" THEN "mac" ELSE "windows"

binary_name == IF sys_platform = "win32" THEN "clang-format.exe" ELSE "clang-format"

style == "Chromium"

\* os.environ['PATH'].split(os.pathsep): the first entry is quoted.
PATH == <<"\"/a\"", "/b">>

\* path.strip('"') on the entries of PATH.
StripQuotes(p) == IF p = "\"/a\"" THEN "/a" ELSE p

\* os.path.join(dir, program)
join(dir, program) == dir \o "/" \o program

VARIABLES
    variant,       \* which plugin file is loaded
    settingsPath,  \* settings.get('clang_format_path'), "" when unset
    exeFiles,      \* the regular executable files of the filesystem
    fileName,      \* view.file_name(), "" when the buffer has no file
    sel,           \* view.sel(): a sequence of regions [a, b]
    encoding,      \* view.encoding()
    buffer,        \* the view's text
    n,             \* invocations of the command so far
    mainPc,        \* what the host's main thread is executing
    mainInv,       \* the invocation the main thread is executing for
    req,           \* per invocation: what run built
    thr,           \* per invocation: the background thread
    proc,          \* per invocation: the formatter process
    timer,         \* per invocation: the 1 s set_timeout(start_indicator)
    indicator,     \* self._indicator: NoHandle or the handle run i created
    running,       \* per handle: ActivityIndicator is running
    dialogs        \* message_dialog(MISSING_BINARY_MESSAGE) calls

vars == <<variant, settingsPath, exeFiles, fileName, sel, encoding, buffer, n,
          mainPc, mainInv, req, thr, proc, timer, indicator, running,
          dialogs>>

env == <<variant, settingsPath, exeFiles, fileName, sel, encoding>>
ind == <<indicator, running>>

is_exe(fpath) == fpath \in exeFiles

RECURSIVE whichFrom(_, _)
\* The loop of which() over PATH from entry k on; "" stands for None.
whichFrom(program, k) ==
    IF k > Len(PATH) THEN ""
    ELSE LET exe_file == join(StripQuotes(PATH[k]), program)
         IN  IF is_exe(exe_file) THEN exe_file ELSE whichFrom(program, k + 1)

\* which(binary_name()): the name has no directory part, so PATH is searched.
which(program) == whichFrom(program, 1)

\* The head of run: the binary it goes on with, "" when it shows the dialog.
ResolveCF ==
    IF settingsPath = ""
    THEN LET binary_path == which(binary_name)
         IN  IF binary_path = "" \/ ~is_exe(binary_path) THEN "" ELSE binary_path
    ELSE settingsPath

ResolveSCF ==
    LET binary_path == IF settingsPath # "" THEN settingsPath ELSE which(binary_name)
    IN  IF binary_path = "" \/ ~is_exe(binary_path) THEN "" ELSE binary_path

Resolve == IF variant = "ClangFormat" THEN ResolveCF ELSE ResolveSCF

\* The offset taken from region.a instead of the smaller end.
RegionArgsNoMin(region) ==
    LET region_offset == region.a
        region_length == abs(region.b - region.a)
    IN  <<"-offset", str(region_offset), "-length", str(region_length)>>

RegionArgs(region) ==
    LET region_offset == min(region.a, region.b)
        region_length == abs(region.b - region.a)
    IN  <<"-offset", str(region_offset), "-length", str(region_length)>>

RECURSIVE SelArgs(_)
SelArgs(regions) ==
    IF regions = <<>> THEN <<>>
    ELSE RegionArgs(Head(regions)) \o SelArgs(Tail(regions))

\* The argument list run builds for binary_path.
BuildArgs(binary_path, only_selection) ==
    <<binary_path, "-fallback-style", style>>
    \o (IF fileName # "" THEN <<"-assume-filename", fileName>> ELSE <<>>)
    \o (IF variant = "SublimeClangFormat" \/ only_selection THEN SelArgs(sel) ELSE <<>>)

\* view.replace(edit, Region(a, b), text)
replace(text, a, b, output) ==
    SubSeq(text, 1, a) \o output \o SubSeq(text, b + 1, Len(text))

NoReq == [st |-> "none", only_selection |-> TRUE, args |-> <<>>, warned |-> FALSE,
          announced |-> FALSE, stdin |-> <<>>, text |-> <<>>, enc |-> "",
          returned |-> FALSE]
NoThr == [pc |-> "none", on_exit |-> 0, on_error |-> 0, arg |-> <<>>,
          on |-> "none", status |-> "none", shown |-> <<>>,
          applied |-> FALSE, result |-> <<>>]
NoProc == [st |-> "none", out |-> <<>>, err |-> <<>>]

(***************************************************************************)
(* Initial states: the plugin is loaded, the command has not run.          *)
(***************************************************************************)
Variants == {"ClangFormat", "SublimeClangFormat"}
\* The setting clang_format_path with the executable files there are:
\* /opt/cf is a formatter binary wherever it is named, /bad/cf never exists.
Environments ==
    { <<"", {}>>, <<"", {"/b/clang-format"}>>, <<"/opt/cf", {"/opt/cf"}>>,
      <<"/bad/cf", {}>>, <<"/bad/cf", {"/b/clang-format"}>> }
FileNames == {"", "/src/a.cc"}
Encodings == {"Undefined", "UTF-16 LE", "Hexadecimal"}
Region(a, b) == [a |-> a, b |-> b]
InitialText == <<98, 233>>
MainSels == {<<Region(2, 0)>>}

\* What a formatter process may write before it exits.
Outcomes ==
    { [out |-> <<97>>, err |-> <<>>], [out |-> <<195, 169>>, err |-> <<>>],
      [out |-> <<97>>, err |-> <<101>>] }

InitRest ==
    /\ n = 0
    /\ mainPc = "idle"
    /\ mainInv = 0
    /\ req = [i \in Inv |-> NoReq]
    /\ thr = [i \in Inv |-> NoThr]
    /\ proc = [i \in Inv |-> NoProc]
    /\ timer = [i \in Inv |-> "none"]
    /\ indicator = NoHandle
    /\ running = [h \in Inv |-> FALSE]
    /\ dialogs = 0

Init ==
    /\ variant \in Variants
    /\ \E e \in Environments : settingsPath = e[1] /\ exeFiles = e[2]
    /\ fileName = "/src/a.cc"
    /\ sel \in MainSels
    /\ encoding \in Encodings
    /\ buffer = InitialText
    /\ InitRest

(***************************************************************************)
(* Main thread: ClangFormatCommand.run up to thread.start().               *)
(***************************************************************************)
Run(i, only_selection) ==
    /\ mainPc = "idle"
    /\ i = n + 1
    /\ i \in Inv
    /\ n' = i
    /\ LET binary_path == Resolve
           args == BuildArgs(binary_path, only_selection)
           warned == (fileName = "")       \* print('Checking style without ...')
           buffer_text == SubSeq(buffer, 1, Len(buffer))
           announced == (variant = "SublimeClangFormat")   \* 'Formatting...'
           enc == IF encoding # "Undefined" THEN encoding ELSE "utf-8"
           codec == PyCodec(enc)
       IN  IF binary_path = ""
           THEN /\ dialogs' = dialogs + 1
                /\ req' = [req EXCEPT ![i] = [NoReq EXCEPT !.st = "missing",
                                                           !.only_selection = only_selection,
                                                           !.returned = TRUE]]
                /\ UNCHANGED <<mainPc, mainInv, thr, timer, indicator>>
           ELSE IF codec = "LookupError"
           THEN /\ req' = [req EXCEPT ![i] = [NoReq EXCEPT !.st = "raised",
                                                           !.only_selection = only_selection,
                                                           !.args = args,
                                                           !.warned = warned,
                                                           !.announced = announced,
                                                           !.returned = TRUE]]
                /\ UNCHANGED <<mainPc, mainInv, thr, timer, indicator, dialogs>>
           ELSE /\ req' = [req EXCEPT ![i] = [st |-> "started",
                                              only_selection |-> only_selection,
                                              args |-> args, warned |-> warned,
                                              announced |-> announced,
                                              stdin |-> encode(codec, buffer_text),
                                              text |-> buffer_text, enc |-> codec,
                                              returned |-> FALSE]]
                /\ IF variant = "ClangFormat"
                   THEN /\ indicator' = i
                        /\ timer' = [timer EXCEPT ![i] = "pending"]
                   ELSE UNCHANGED <<indicator, timer>>
                /\ thr' = [thr EXCEPT ![i].pc = "spawn"]
                /\ mainPc' = "start_thread"
                /\ mainInv' = i
                /\ UNCHANGED dialogs
    /\ UNCHANGED <<env, buffer, proc, running>>

\* A start_thread that joins the thread before it returns.
StartThreadJoinReturn(i) ==
    /\ mainPc = "start_thread"
    /\ mainInv = i
    /\ thr[i].pc \in {"done", "raised"}
    /\ mainPc' = "idle"
    /\ req' = [req EXCEPT ![i].returned = TRUE]
    /\ UNCHANGED <<env, buffer, n, mainInv, thr, proc, timer, ind, dialogs>>

\* start_thread / run_command return the thread, and run returns to the host.
StartThreadReturn(i) ==
    /\ mainPc = "start_thread"
    /\ mainInv = i
    /\ mainPc' = "idle"
    /\ req' = [req EXCEPT ![i].returned = TRUE]
    /\ UNCHANGED <<env, buffer, n, mainInv, thr, proc, timer, ind, dialogs>>

(***************************************************************************)
(* Main thread: the timer callback start_indicator, statement by statement.*)
(***************************************************************************)
StartIndicatorCheck(i) ==
    /\ mainPc = "idle"
    /\ timer[i] = "pending"
    /\ timer' = [timer EXCEPT ![i] = "fired"]
    /\ IF indicator # NoHandle
       THEN mainPc' = "start_indicator" /\ mainInv' = i
       ELSE UNCHANGED <<mainPc, mainInv>>
    /\ UNCHANGED <<env, buffer, n, req, thr, proc, ind, dialogs>>

StartIndicatorCall(i) ==
    /\ mainPc = "start_indicator"
    /\ mainInv = i
    /\ mainPc' = "idle"
    /\ IF indicator = NoHandle
       THEN UNCHANGED running     \* None.start(): AttributeError
       ELSE running' = [running EXCEPT ![indicator] = TRUE]
    /\ UNCHANGED <<env, buffer, n, mainInv, req, thr, proc, timer, indicator,
                   dialogs>>

(***************************************************************************)
(* Background thread: run_in_thread.                                       *)
(***************************************************************************)
Popen(i) ==
    /\ thr[i].pc = "spawn"
    /\ IF is_exe(req[i].args[1])
       THEN /\ proc' = [proc EXCEPT ![i].st = "running"]
            /\ thr' = [thr EXCEPT ![i].pc = "communicate"]
       ELSE /\ thr' = [thr EXCEPT ![i].pc = "raised"]
            /\ UNCHANGED proc
    /\ UNCHANGED <<env, buffer, n, mainPc, mainInv, req, timer, ind, dialogs>>

\* run_in_thread calls the result callback, on its own thread.
on_error(i, error) ==
    thr' = [thr EXCEPT ![i].on_error = @ + 1, ![i].arg = error,
                       ![i].on = "background",
                       ![i].pc = IF variant = "ClangFormat" THEN "stop_check" ELSE "body"]

on_exit(i, output) ==
    thr' = [thr EXCEPT ![i].on_exit = @ + 1, ![i].arg = output,
                       ![i].on = "background",
                       ![i].pc = IF variant = "ClangFormat" THEN "stop_check" ELSE "body"]

\* A dispatch on the presence of output instead of the absence of error.
DispatchOnOutput(i, output, error) ==
    IF output = <<>> THEN on_error(i, error) ELSE on_exit(i, output)

\* if error: on_error(error) else: on_exit(output)
Dispatch(i, output, error) ==
    IF error # <<>> THEN on_error(i, error) ELSE on_exit(i, output)

\* The process exits having written `out` and `err`, communicate() returns
\* them and the result callback is called, on this thread.  Nothing else reads
\* the process between its exit and the return of communicate(), so the two
\* are one step; a process that never exits leaves the thread here for ever.
Communicate(i, out, err) ==
    /\ thr[i].pc = "communicate"
    /\ proc[i].st = "running"
    /\ proc' = [proc EXCEPT ![i] = [st |-> "exited", out |-> out, err |-> err]]
    /\ Dispatch(i, out, err)
    /\ UNCHANGED <<env, buffer, n, mainPc, mainInv, req, timer, ind, dialogs>>

\* stop_indicator, statement by statement.
StopCheck(i) ==
    /\ thr[i].pc = "stop_check"
    /\ thr' = [thr EXCEPT ![i].pc = IF indicator # NoHandle THEN "stop_call" ELSE "body"]
    /\ UNCHANGED <<env, buffer, n, mainPc, mainInv, req, proc, timer, ind, dialogs>>

StopCall(i) ==
    /\ thr[i].pc = "stop_call"
    /\ IF indicator = NoHandle
       THEN /\ thr' = [thr EXCEPT ![i].pc = "raised"]   \* None.stop()
            /\ UNCHANGED running
       ELSE /\ running' = [running EXCEPT ![indicator] = FALSE]
            /\ thr' = [thr EXCEPT ![i].pc = "stop_clear"]
    /\ UNCHANGED <<env, buffer, n, mainPc, mainInv, req, proc, timer, indicator,
                   dialogs>>

StopClear(i) ==
    /\ thr[i].pc = "stop_clear"
    /\ indicator' = NoHandle
    /\ thr' = [thr EXCEPT ![i].pc = "body"]
    /\ UNCHANGED <<env, buffer, n, mainPc, mainInv, req, proc, timer, running,
                   dialogs>>

\* ClangFormatApplyCommand.run on the text `output`.
Apply(i, output) ==
    LET size == Len(buffer)
    IN  /\ buffer' = replace(buffer, 0, size, output)
        /\ thr' = [thr EXCEPT ![i].status = "Formatted", ![i].applied = TRUE,
                              ![i].result = buffer',
                              ![i].pc = "done"]

\* A decode with the codec of on_formatting_error instead of the request's.
OutputTextUtf8(i) == decode("utf-8", thr[i].arg)

\* output.decode(encoding), with the encoding run captured in the lambda.
OutputText(i) == decode(req[i].enc, thr[i].arg)

\* The rest of on_formatting_success.
SuccessBody(i) ==
    /\ thr[i].pc = "body"
    /\ thr[i].on_exit > 0
    /\ LET output == OutputText(i)
       IN  IF output.ok
           THEN Apply(i, output.text)
           ELSE thr' = [thr EXCEPT ![i].pc = "raised"] /\ UNCHANGED buffer
    /\ UNCHANGED <<env, n, mainPc, mainInv, req, proc, timer, ind, dialogs>>

\* The rest of on_formatting_error.
ErrorBody(i) ==
    /\ thr[i].pc = "body"
    /\ thr[i].on_error > 0
    /\ LET error == thr[i].arg
           text == decode("utf-8", error)
       IN  IF variant = "SublimeClangFormat"
           THEN thr' = [thr EXCEPT ![i].status = "error", ![i].shown = error,
                                   ![i].pc = "done"]
           ELSE IF text.ok
           THEN thr' = [thr EXCEPT ![i].status = "error", ![i].shown = text.text,
                                   ![i].pc = "done"]
           ELSE thr' = [thr EXCEPT ![i].pc = "raised"]
    /\ UNCHANGED <<env, buffer, n, mainPc, mainInv, req, proc, timer, ind, dialogs>>

Next ==
    \/ \E i \in Inv : Run(i, TRUE)
    \/ \E i \in Inv : StartThreadReturn(i)
    \/ \E i \in Inv : StartIndicatorCheck(i)
    \/ \E i \in Inv : StartIndicatorCall(i)
    \/ \E i \in Inv : Popen(i)
    \/ \E i \in Inv, o \in Outcomes : Communicate(i, o.out, o.err)
    \/ \E i \in Inv : StopCheck(i)
    \/ \E i \in Inv : StopCall(i)
    \/ \E i \in Inv : StopClear(i)
    \/ \E i \in Inv : SuccessBody(i)
    \/ \E i \in Inv : ErrorBody(i)

Spec == Init /\ [][Next]_vars

(***************************************************************************)
(* The argument list alone: the command run on a view with any selection   *)
(* set, with and without only_selection.                                   *)
(***************************************************************************)
Positions == {0, 1, MaxPos}
Regions == {Region(a, b) : a \in Positions, b \in Positions}
SelectionSets == UNION {[1..k -> Regions] : k \in 0..MaxSel}

InitArgs ==
    /\ variant \in Variants
    /\ \E e \in Environments : settingsPath = e[1] /\ exeFiles = e[2]
    /\ fileName \in FileNames
    /\ sel \in SelectionSets
    /\ encoding = "UTF-8"
    /\ buffer = [k \in 1..MaxPos |-> 97]
    /\ InitRest

NextArgs ==
    \/ \E i \in Inv, only_selection \in BOOLEAN :
          /\ variant = "SublimeClangFormat" => only_selection
          /\ Run(i, only_selection)
    \/ \E i \in Inv : StartThreadReturn(i)

SpecArgs == InitArgs /\ [][NextArgs]_vars

(***************************************************************************)
(* The claims.                                                             *)
(***************************************************************************)
Calls(i) == thr[i].on_exit + thr[i].on_error

\* The thread of invocation i has ended: its callback returned or raised, or
\* Popen raised.
Ended(i) == thr[i].pc \in {"done", "raised"}

OthersApplied(i) == \E j \in Inv \ {i} : thr[j].applied

\* C1: an invocation whose process exited having written to stderr has had
\* on_formatting_error called exactly once with the stderr bytes and
\* on_formatting_success never; nothing of stdout is shown or applied (the
\* only message is the one made of stderr), the invocation never replaces the
\* buffer, and unless another invocation applied its output the buffer is the
\* text the invocation was started on.
C1_StderrIsError ==
    \A i \in Inv :
        (proc[i].st = "exited" /\ proc[i].err # <<>>) =>
            /\ thr[i].on_error = 1
            /\ thr[i].on_exit = 0
            /\ thr[i].arg = proc[i].err
            /\ ~thr[i].applied
            /\ thr[i].status \in {"none", "error"}
            /\ thr[i].status = "error" =>
                  thr[i].shown = IF variant = "ClangFormat"
                                 THEN Utf8Decode(proc[i].err).text
                                 ELSE proc[i].err
            /\ ~OthersApplied(i) => buffer = req[i].text

C1_Witness ==
    \E i \in Inv :
        /\ proc[i].st = "exited"
        /\ proc[i].err # <<>>
        /\ proc[i].out # <<>>
        /\ thr[i].pc = "done"
        /\ thr[i].status = "error"
        /\ buffer = InitialText

\* C2: an invocation whose process exited having written X to stdout and
\* nothing to stderr has had on_formatting_success called exactly once with X
\* and on_formatting_error never; its stdin was the buffer encoded with the
\* request's encoding, and when it has applied, the buffer right after the
\* apply was exactly X decoded with that same encoding; a callback that
\* returned has applied; while no invocation has applied, the buffer is
\* untouched, and after the only apply the buffer is the whole decoded output.
C2_SuccessReplacesAll ==
    \A i \in Inv :
        (proc[i].st = "exited" /\ proc[i].err = <<>>) =>
            /\ thr[i].on_exit = 1
            /\ thr[i].on_error = 0
            /\ thr[i].arg = proc[i].out
            /\ req[i].stdin = encode(req[i].enc, req[i].text)
            /\ thr[i].pc = "done" => thr[i].applied
            /\ thr[i].applied =>
                  /\ decode(req[i].enc, proc[i].out).ok
                  /\ thr[i].result = decode(req[i].enc, proc[i].out).text
                  /\ ~OthersApplied(i) => buffer = thr[i].result
            /\ (~thr[i].applied /\ ~OthersApplied(i)) => buffer = InitialText

C2_Witness ==
    \E i \in Inv :
        /\ proc[i].st = "exited"
        /\ proc[i].err = <<>>
        /\ req[i].enc = "utf-16-le"
        /\ thr[i].applied
        /\ thr[i].pc = "done"
        /\ buffer = thr[i].result
        /\ Len(buffer) # Len(req[i].text)

\* C3: every request handed to a background thread produces exactly one
\* result: never more than one callback call, and exactly one once the
\* thread has ended.
C3_ExactlyOneResult ==
    \A i \in Inv :
        /\ Calls(i) <= 1
        /\ (req[i].st = "started" /\ Ended(i)) => Calls(i) = 1

\* C4: with a configured binary path that is set and names no executable
\* file, run ends in the missing-binary dialog whatever PATH holds: no
\* argument list, no thread, no process, the buffer unchanged.
C4_MissingBinary ==
    \A i \in Inv :
        (req[i].st # "none" /\ settingsPath # "" /\ ~is_exe(settingsPath)) =>
            /\ req[i].st = "missing"
            /\ dialogs >= 1
            /\ req[i].args = <<>>
            /\ thr[i].pc = "none"
            /\ proc[i].st = "none"
            /\ buffer = InitialText

\* C5: no result callback runs on the invocation's background thread.
C5_MainThreadDelivery == \A i \in Inv : thr[i].on # "background"

MainStep == \E i \in Inv : StartThreadReturn(i) \/ StartIndicatorCall(i)

\* C6: the main thread never waits on the formatter process: whenever it is
\* inside a task (run after thread.start(), or start_indicator), its next
\* step can be taken at once, whatever the state of the process and of the
\* background thread.
C6_MainNeverWaits == mainPc # "idle" => ENABLED MainStep

C6_Witness ==
    \E i \in Inv :
        /\ req[i].st = "started"
        /\ req[i].returned
        /\ mainPc = "idle"
        /\ proc[i].st = "running"
        /\ thr[i].pc = "communicate"

\* C7: a result callback is called only after the invoking call has returned.
C7_ResultAfterReturn == \A i \in Inv : Calls(i) > 0 => req[i].returned

\* C8: invocations share no mutable state: the indicator handle that the
\* cleanup and the timer callback of an invocation act on is the one that
\* invocation created (or none).
C8_NoSharedState ==
    [][\A i \in Inv :
          (StopCall(i) \/ StartIndicatorCall(i)) => indicator \in {NoHandle, i}]_vars

RECURSIVE Groups(_)
\* The offset/length groups the claim expects for a sequence of regions,
\* as pairs of numbers.
Groups(regions) ==
    IF regions = <<>> THEN <<>>
    ELSE LET r == Head(regions)
         IN  <<IF r.a < r.b THEN r.a ELSE r.b, IF r.a < r.b THEN r.b - r.a ELSE r.a - r.b>>
             \o Groups(Tail(regions))

\* Decimal numerals, written out.
Numeral ==
    <<"1", "2", "3", "4", "5", "6", "7", "8", "9", "10", "11", "12", "13", "14",
      "15", "16", "17", "18", "19", "20">>

Decimal(k) == IF k = 0 THEN "0" ELSE Numeral[k]

\* C9: the argument list is the binary, -fallback-style, the style, the
\* optional -assume-filename pair, and then, for the N regions requested (none
\* in ClangFormat.py with only_selection false), exactly N groups -offset
\* min(a,b) -length |b-a| in the order of the selection set: 2N flags, none
\* when N is zero.
C9_RegionFlags ==
    \A i \in Inv :
        req[i].st \in {"started", "raised"} =>
            LET args == req[i].args
                regions == IF variant = "ClangFormat" /\ ~req[i].only_selection
                           THEN <<>> ELSE sel
                N == Len(regions)
                base == IF fileName # "" THEN 5 ELSE 3
                want == Groups(regions)
            IN  /\ Len(args) = base + 4 * N
                /\ args[1] \in exeFiles \cup {settingsPath}
                /\ args[2] = "-fallback-style"
                /\ args[3] = "Chromium"
                /\ fileName # "" => args[4] = "-assume-filename" /\ args[5] = fileName
                /\ \A k \in 1..N :
                      /\ args[base + 4 * k - 3] = "-offset"
                      /\ args[base + 4 * k - 2] = Decimal(want[2 * k - 1])
                      /\ args[base + 4 * k - 1] = "-length"
                      /\ args[base + 4 * k] = Decimal(want[2 * k])
                /\ Cardinality({k \in 1..Len(args) : args[k] \in {"-offset", "-length"}})
                      = 2 * N

C9_Witness ==
    \E i \in Inv :
        /\ req[i].st = "started"
        /\ Len(sel) = 2
        /\ sel[1] = Region(MaxPos, 1)
        /\ sel[2] = Region(0, MaxPos)
        /\ fileName # ""
        /\ Len(req[i].args) = 13

\* C10: in ClangFormat.py with a single invocation, start_indicator never
\* calls start() on a cleared handle, and once the result callback has
\* ended the indicator is not running.
C10_IndicatorStopped ==
    [][n' = 1 =>
          /\ StartIndicatorCall(1) => indicator # NoHandle
          /\ (Calls(1)' = 1 /\ Ended(1)') => ~running'[1]]_vars

====
